---- MODULE Spec2Model ----
(***************************************************************************)
(* Model of the Automated-BI-Pipeline: the DataCleaner (data_cleaner.py)   *)
(* and the DatabaseConnector (db_connector.py).                            *)
(*                                                                         *)
(* The specifications share the variables:                                 *)
(*   SpecCleaner    DataCleaner.load_data / handle_missing_values          *)
(*   SpecTypes      the same with correct_datatypes, on named columns      *)
(*   SpecNarrow     the dtype a float column is narrowed to                *)
(*   SpecMode       the mode a categorical column is filled with           *)
(*   SpecConnector  DatabaseConnector.__init__ / _connect / tenacity retry *)
(*   SpecUpsert     DatabaseConnector.upsert_dataframe against a table     *)
(*   SpecPersist    a connector's calls one after another, with close      *)
(*   SpecPipeline   main.py and DataCleaner.save_to_database               *)
(***************************************************************************)
EXTENDS Integers, Sequences, FiniteSets, TLC

VARIABLES
    \* ---- DataCleaner ----
    data,       \* self.data: None or the DataFrame (a sequence of columns)
    given,      \* the DataFrame as it was loaded/assigned (input of the call)
    cleanerOp,  \* the DataCleaner method that returned last
    cleanerRet, \* what that method returned: None or the DataFrame
    cleanerLog  \* the errors that method logged (see Logged)

cleanerVars == <<data, given, cleanerOp, cleanerRet, cleanerLog>>

VARIABLES
    \* ---- DatabaseConnector: construction ----
    connPc,         \* where DatabaseConnector() is: "new", "create_engine",
                    \* "connect", "execute", "return", "sleep", "ready", "raised"
    engine,         \* self.engine: "None" or "Engine"
    attemptNumber,  \* tenacity's retry_state.attempt_number (0 before the call)
    select1Ok,      \* SELECT 1 succeeded in the attempt that is running
    errors,         \* the exception each failed attempt raised, in order
    waits,          \* the seconds tenacity slept before each further attempt
    raisedError,    \* what DatabaseConnector() raised to its caller, if anything
    connOp,         \* the connector method called last: "none", "execute_query", "close"
    connResult,     \* how it ended: "none", "returned", "raised"
    disposals       \* how often engine.dispose() ran

connVars == <<connPc, engine, attemptNumber, select1Ok, errors, waits, raisedError,
              connOp, connResult, disposals>>

VARIABLES
    \* ---- DatabaseConnector.upsert_dataframe and the destination table ----
    table,        \* the committed (durable) rows of the destination table
    txn,          \* the rows as the open connection's transaction sees them
    records,      \* df.to_dict("records") of the running / last call (a frame)
    processed,    \* how many records the loop has executed (i after the body)
    upsertPc,     \* "idle", "loop", "done", "raised", "aborted"
    commitLog,    \* the commits of the call: [at |-> i, kind |-> ...]
    rowsTotal,    \* rows_total reported on completion (<< >> until then)
    calls,        \* upsert_dataframe calls started so far
    tableBefore,  \* the committed rows when the call started
    repeated      \* the call repeats the completed previous call's dataset

upsertVars == <<table, txn, records, processed, upsertPc, commitLog, rowsTotal,
                calls, tableBefore, repeated>>

VARIABLES
    \* ---- what the DatabaseConnector calls leave behind ----
    pool,     \* self.engine's connection pool: "none" (no engine), "idle" (it
              \* holds an open connection), "empty" (disposed)
    outcome,  \* how the last ended DatabaseConnector call ended (see Returned)
    saved     \* the table save_dataframe writes: << >> (no such table) or
              \* <<n>>, a table of n rows

sessionVars == <<pool, outcome, saved>>

VARIABLES
    \* ---- one pandas Series under one of the column computations ----
    series,   \* the values of the column
    result    \* << >> before the computation, <<r>> after it

pureVars == <<series, result>>

VARIABLES
    \* ---- the caller: main.py / save_to_database / upsert_to_database ----
    run       \* where the caller is (see the pipeline section)

runVars == <<run>>

vars == <<cleanerVars, connVars, upsertVars, sessionVars, pureVars, runVars>>

(***************************************************************************)
(* DataFrames.  A cell is <<>> (null: NaN / None) or <<v>>.  A float64     *)
(* cell <<v>> holds the number v/2 (so <<3>> is 1.5): the mean of two      *)
(* whole numbers is then exact.  An object cell <<v>> holds a string, v    *)
(* being its rank in sort order.                                           *)
(***************************************************************************)
\* Optional[pd.DataFrame]: None is << >>, a DataFrame df is <<df>>
None == << >>
Some(df) == <<df>>
NaN == << >>

MaxCols == 2
MaxLen == 2

FloatCells == {NaN, <<2>>, <<4>>}
ObjectCells == {NaN, <<1>>, <<2>>}
Dtypes == {"float64", "object"}

CellsOf(dtype) == IF dtype = "float64" THEN FloatCells ELSE ObjectCells

ColumnsOfLen(n) ==
    UNION {{[dtype |-> d, vals |-> v] : v \in [1..n -> CellsOf(d)]} : d \in Dtypes}

\* every DataFrame of at most MaxCols columns and 1..MaxLen rows
DataFrames ==
    UNION {UNION {[1..c -> ColumnsOfLen(n)] : c \in 1..MaxCols} : n \in 1..MaxLen}

\* what read_csv can produce: a column without any value is parsed as float64
CsvFrames ==
    {df \in DataFrames :
        \A j \in DOMAIN df :
            df[j].dtype = "object" => \E i \in DOMAIN df[j].vals : df[j].vals[i] # NaN}

IsNull(cell) == cell = NaN

RowCount(df) == IF Len(df) = 0 THEN 0 ELSE Len(df[1].vals)

\* df[col].isnull().sum()
NullCount(col) == Cardinality({i \in DOMAIN col.vals : IsNull(col.vals[i])})

\* the non-null values of a column, in row order
DropNa(vals) == SelectSeq(vals, LAMBDA c : ~IsNull(c))

RECURSIVE SortedInsert(_, _)
SortedInsert(s, x) ==
    IF s = << >> THEN <<x>>
    ELSE IF x <= Head(s) THEN <<x>> \o s
    ELSE <<Head(s)>> \o SortedInsert(Tail(s), x)

RECURSIVE Sort(_)
Sort(s) == IF s = << >> THEN << >> ELSE SortedInsert(Sort(Tail(s)), Head(s))

\* Series.median(): nulls are skipped; NaN when no value is left
Median(vals) ==
    LET nn == DropNa(vals)
        s == Sort([i \in DOMAIN nn |-> nn[i][1]])
        n == Len(s)
    IN  IF n = 0 THEN NaN
        ELSE IF n % 2 = 1 THEN <<s[(n + 1) \div 2]>>
        ELSE <<(s[n \div 2] + s[n \div 2 + 1]) \div 2>>

CountOf(vals, c) == Cardinality({i \in DOMAIN vals : vals[i] = c})

\* the most frequent non-null values in the order of their first occurrence
ModeFirstSeen(vals) ==
    LET nn == DropNa(vals)
        present == {nn[i][1] : i \in DOMAIN nn}
        top == {v \in present : \A w \in present : CountOf(nn, <<w>>) <= CountOf(nn, <<v>>)}
        First(v) == CHOOSE i \in DOMAIN nn : nn[i] = <<v>> /\ \A k \in 1..(i - 1) : nn[k] # <<v>>
        RECURSIVE ByFirst(_)
        ByFirst(S) == IF S = {} THEN << >>
                      ELSE LET m == CHOOSE x \in S : \A y \in S : First(x) <= First(y)
                           IN  <<m>> \o ByFirst(S \ {m})
    IN  ByFirst(top)

\* Series.mode(): the most frequent non-null values, sorted ascending
Mode(vals) ==
    LET nn == DropNa(vals)
        present == {nn[i][1] : i \in DOMAIN nn}
        top == {v \in present : \A w \in present : CountOf(nn, <<w>>) <= CountOf(nn, <<v>>)}
        RECURSIVE Asc(_)
        Asc(S) == IF S = {} THEN << >>
                  ELSE LET m == CHOOSE x \in S : \A y \in S : x <= y
                       IN  <<m>> \o Asc(S \ {m})
    IN  Asc(top)

\* the literal "Unknown" (it sorts before the lower-case strings)
Unknown == 0

\* text cells from this rank on hold a Python list instead of a string
ListRank == 100

IsList(v) == v >= ListRank

\* Series.mode() hashes the values: it raises TypeError (unhashable type)
\* on a list.  mode() is reached only for an object column with nulls.
FillRaises(col) ==
    /\ col.dtype = "object"
    /\ NullCount(col) > 0
    /\ \E i \in DOMAIN col.vals : ~IsNull(col.vals[i]) /\ IsList(col.vals[i][1])

\* self.logger.error(...) about column col (0: about the whole call)
Logged(msg, col) == [msg |-> msg, col |-> col]

\* a method without the check of self.data: the first statement of its try
\* block fails on None and the outer except reports a failed computation
WithoutDataInTry == {Logged("failed", 0)}

\* if self.data is None: self.logger.error("Keine Daten geladen. ...");
\* return None  (lines 62-64 and 129-131): what is logged
WithoutData == {Logged("not_loaded", 0)}

\* Series.fillna(value, inplace=True) on self.data[col], which writes through
\* to self.data (as test_handle_missing_values_with_sample_data asserts);
\* fillna(NaN) changes nothing
FillNa(col, value) ==
    [col EXCEPT !.vals = [i \in DOMAIN col.vals |->
        IF IsNull(col.vals[i]) THEN value ELSE col.vals[i]]]

\* lines 87-92: numeric columns with missing values are filled with the median
FillNumeric(col) ==
    IF col.dtype = "float64" /\ NullCount(col) > 0
    THEN FillNa(col, Median(col.vals))
    ELSE col

\* lines 95-104: object columns are filled with mode()[0], or "Unknown"
FillCategorical(col) ==
    IF col.dtype = "object" /\ NullCount(col) > 0
    THEN IF Mode(col.vals) # << >>
         THEN FillNa(col, <<Mode(col.vals)[1]>>)
         ELSE FillNa(col, <<Unknown>>)
    ELSE col

\* the stricter policy: drop every row that holds a null
ImputedByDroppingRows(df) ==
    LET keep == SelectSeq([i \in 1..RowCount(df) |-> i],
                          LAMBDA i : \A j \in DOMAIN df : ~IsNull(df[j].vals[i]))
    IN  [j \in DOMAIN df |->
            [df[j] EXCEPT !.vals = [m \in DOMAIN keep |-> df[j].vals[keep[m]]]]]

\* lines 87-104 over all columns
Imputed(df) == [j \in DOMAIN df |-> FillCategorical(FillNumeric(df[j]))]

\* the first object column whose imputation raises, 0 if none does
FirstFillRaising(df) ==
    LET bad == {j \in DOMAIN df : FillRaises(df[j])}
    IN  IF bad = {} THEN 0 ELSE CHOOSE j \in bad : \A k \in bad : j <= k

\* lines 87-104 when the imputation of column stop raises: the numeric
\* columns were all filled before the object columns were begun, the object
\* columns before stop were filled, stop and the object columns after it
\* were not reached
ImputedUntil(df, stop) ==
    [j \in DOMAIN df |->
        IF df[j].dtype = "object" /\ j >= stop THEN df[j]
        ELSE FillCategorical(FillNumeric(df[j]))]

\* the longest text column whose imputation is examined on its own
MaxModeLen == 4

\* the strings "w", "x", "z" by rank, and missing
ModeCells == {NaN, <<1>>, <<2>>, <<3>>}

ModeSeries == UNION {[1..n -> ModeCells] : n \in 1..MaxModeLen}

\* lines 95-104 on one object column
FillModeSeries ==
    /\ result = << >>
    /\ series # << >>
    /\ result' = <<FillCategorical([dtype |-> "object", vals |-> series]).vals>>
    /\ UNCHANGED series
    /\ UNCHANGED <<cleanerVars, connVars, upsertVars, sessionVars, runVars>>

(***************************************************************************)
(* DataCleaner                                                             *)
(***************************************************************************)
\* load_data succeeds: self.data = pd.read_csv(...).  The file is read once
\* per run (main.py:15), so the model loads only into an empty cleaner.
LoadData ==
    /\ data = None
    /\ \E df \in CsvFrames :
        /\ data' = Some(df)
        /\ given' = Some(df)
        /\ cleanerRet' = Some(df)
    /\ cleanerOp' = "load_data"
    /\ cleanerLog' = {}
    /\ UNCHANGED <<connVars, upsertVars, sessionVars, pureVars, runVars>>

\* load_data fails (missing, empty or malformed file): logs, returns None
LoadDataFails ==
    /\ data = None
    /\ cleanerOp' = "load_data"
    /\ cleanerRet' = None
    /\ cleanerLog' = {Logged("load_failed", 0)}
    /\ UNCHANGED <<data, given>>
    /\ UNCHANGED <<connVars, upsertVars, sessionVars, pureVars, runVars>>

\* the tests assign the DataFrame directly: cleaner.data = test_data
AssignData ==
    /\ data = None
    /\ \E df \in DataFrames \ CsvFrames :
        /\ data' = Some(df)
        /\ given' = Some(df)
    /\ cleanerOp' = "assign"
    /\ cleanerRet' = None
    /\ cleanerLog' = {}
    /\ UNCHANGED <<connVars, upsertVars, sessionVars, pureVars, runVars>>

\* handle_missing_values (lines 52-117).  Without data: error logged, None.
\* Otherwise the columns are imputed inside one try; when a column raises,
\* the except logs, returns None and leaves self.data as far as it got.
\* Its callers (main.py:18-21, the tests) impute before correct_datatypes
\* has changed the dtypes, never after.
HandleMissingValues ==
    /\ data = None \/ cleanerOp # "correct_datatypes"
    /\ cleanerOp' = "handle_missing_values"
    /\ IF data = None
       THEN /\ cleanerRet' = None
            /\ cleanerLog' = WithoutData
            /\ UNCHANGED <<data, given>>
       ELSE LET stop == FirstFillRaising(data[1]) IN
            /\ data' = IF stop = 0 THEN Some(Imputed(data[1]))
                                   ELSE Some(ImputedUntil(data[1], stop))
            /\ cleanerRet' = IF stop = 0 THEN data' ELSE None
            /\ cleanerLog' = IF stop = 0 THEN {} ELSE {Logged("failed", stop)}
            /\ UNCHANGED given
    /\ UNCHANGED <<connVars, upsertVars, sessionVars, pureVars, runVars>>

(***************************************************************************)
(* correct_datatypes, step 2 (lines 158-196): narrowing a float column.    *)
(*                                                                         *)
(* The thresholds reach 2^32, beyond the integers the checker computes     *)
(* with, so a number is held in limbs: Wide(hi, lo, half) is               *)
(* hi * 65536 + lo + half / 2 with 0 <= lo < 65536 and half \in {0, 1}.    *)
(***************************************************************************)
Limb == 65536

Wide(hi, lo, half) == [hi |-> hi, lo |-> lo, half |-> half]

\* the whole number n
WideOfInt(n) == Wide(n \div Limb, n % Limb, 0)

\* the float cell content h of a DataFrame of the model: the number h / 2
WideOfHalves(h) == Wide((h \div 2) \div Limb, (h \div 2) % Limb, h % 2)

WLess(a, b) ==
    \/ a.hi < b.hi
    \/ a.hi = b.hi /\ a.lo < b.lo
    \/ a.hi = b.hi /\ a.lo = b.lo /\ a.half < b.half

WLeq(a, b) == ~WLess(b, a)

\* the literals the code compares col_min and col_max with
UInt8End == WideOfInt(256)              \* line 170
UInt16End == WideOfInt(65536)           \* line 173
UInt32End == Wide(Limb, 0, 0)           \* line 176: 4294967296
Int8Min == WideOfInt(-128)              \* line 183
Int8End == WideOfInt(128)
Int16Min == WideOfInt(-32768)           \* line 186
Int16End == WideOfInt(32768)
Int32Min == Wide(-(Limb \div 2), 0, 0)  \* line 189: -2147483648
Int32End == Wide(Limb \div 2, 0, 0)     \* line 189: 2147483648

\* the non-null numbers of a column of cells NaN / <<number>>
NumbersOf(cells) == {cells[i][1] : i \in {k \in DOMAIN cells : ~IsNull(cells[k])}}

\* Series.min() / Series.max() of a column that has a non-null value
WMin(nums) == CHOOSE m \in nums : \A x \in nums : WLeq(m, x)
WMax(nums) == CHOOSE m \in nums : \A x \in nums : WLeq(x, m)

\* the narrowing without its test for fractions
AllIntegralSkipped(cells) == TRUE

\* line 164: self.data[col].dropna().apply(lambda x: x == int(x)).all()
AllIntegral(cells) == \A x \in NumbersOf(cells) : x.half = 0

\* lines 164-196: the dtype the column is cast to, "float64" when it is left
\* alone.  A column without a non-null value has min = max = NaN, every
\* comparison with NaN is False, and the code arrives at the last else.
SelectDtype(cells) ==
    LET nums == NumbersOf(cells) IN
    IF ~AllIntegral(cells) THEN "float64"
    ELSE IF nums = {} THEN "Int64"
    ELSE LET col_min == WMin(nums)
             col_max == WMax(nums)
         IN  IF WLeq(WideOfInt(0), col_min)
             THEN IF WLess(col_max, UInt8End) THEN "Int8"
                  ELSE IF WLess(col_max, UInt16End) THEN "Int16"
                  ELSE IF WLess(col_max, UInt32End) THEN "Int32"
                  ELSE "Int64"
             ELSE IF WLeq(Int8Min, col_min) /\ WLess(col_max, Int8End) THEN "Int8"
                  ELSE IF WLeq(Int16Min, col_min) /\ WLess(col_max, Int16End) THEN "Int16"
                  ELSE IF WLeq(Int32Min, col_min) /\ WLess(col_max, Int32End) THEN "Int32"
                  ELSE "Int64"

\* pandas' nullable integer dtypes "Int8", "Int16", "Int32" are signed: they
\* hold DtypeMin .. DtypeEnd - 1.  Every number of the model lies within
\* "Int64".
DtypeMin(dtype) ==
    IF dtype = "Int8" THEN Int8Min ELSE IF dtype = "Int16" THEN Int16Min ELSE Int32Min

DtypeEnd(dtype) ==
    IF dtype = "Int8" THEN Int8End ELSE IF dtype = "Int16" THEN Int16End ELSE Int32End

Fits(dtype, x) ==
    \/ dtype = "Int64"
    \/ WLeq(DtypeMin(dtype), x) /\ WLess(x, DtypeEnd(dtype))

\* Series.astype(dtype) of an all-integral float column: pandas casts the
\* values and raises TypeError ("cannot safely cast non-equivalent float64
\* to int8") unless every cast value equals the value it came from
AsTypeRaises(cells, dtype) == \E x \in NumbersOf(cells) : ~Fits(dtype, x)

\* what lines 164-196 do to one column: the dtype selected, whether the
\* assignment self.data[col] = ... .astype(...) raised, and the column's
\* dtype afterwards (the assignment does not happen when astype raises)
Narrowed(cells) ==
    LET selected == SelectDtype(cells)
        raised == selected # "float64" /\ AsTypeRaises(cells, selected)
    IN  [selected |-> selected,
         raised |-> raised,
         dtype |-> IF raised THEN "float64" ELSE selected]

MaxSeries == 3

\* numbers around every threshold of the narrowing, and one fraction (1.5)
NarrowNumbers ==
    {WideOfInt(n) : n \in {0, 100, 127, 128, 255, 256, 32767, 32768, 65535, 65536,
                            -1, -128, -129, -32768, -32769}}
    \cup {Wide(Limb \div 2 - 1, Limb - 1, 0), Int32End,
          Wide(Limb - 1, Limb - 1, 0), UInt32End,
          Int32Min, Wide(-(Limb \div 2) - 1, Limb - 1, 0),
          WideOfHalves(3)}

NarrowCells == {NaN} \cup {<<x>> : x \in NarrowNumbers}

SeriesOver(cells) == UNION {[1..n -> cells] : n \in 1..MaxSeries}

\* one float64 column is narrowed
NarrowSeries ==
    /\ result = << >>
    /\ series # << >>
    /\ result' = <<Narrowed(series)>>
    /\ UNCHANGED series
    /\ UNCHANGED <<cleanerVars, connVars, upsertVars, sessionVars, runVars>>

(***************************************************************************)
(* correct_datatypes (lines 119-217) on DataFrames with column labels.     *)
(*                                                                         *)
(* A label is the sequence of its characters.  Text cells: an ISO date     *)
(* string has a negative rank (digits sort before letters), a word a       *)
(* positive one, and a rank from ListRank on stands for a Python list, a   *)
(* value that is not a string and cannot be hashed.                        *)
(***************************************************************************)
UpperCase == <<"A", "B", "C", "D", "E", "F", "G", "H", "I", "J", "K", "L", "M",
               "N", "O", "P", "Q", "R", "S", "T", "U", "V", "W", "X", "Y", "Z">>
LowerCase == <<"a", "b", "c", "d", "e", "f", "g", "h", "i", "j", "k", "l", "m",
               "n", "o", "p", "q", "r", "s", "t", "u", "v", "w", "x", "y", "z">>

\* str.lower()
Lower(name) ==
    [i \in DOMAIN name |->
        IF \E k \in DOMAIN UpperCase : UpperCase[k] = name[i]
        THEN LowerCase[CHOOSE k \in DOMAIN UpperCase : UpperCase[k] = name[i]]
        ELSE name[i]]

\* sub in name
Contains(name, sub) ==
    \E i \in 0..(Len(name) - Len(sub)) : \A k \in DOMAIN sub : name[i + k] = sub[k]

\* the test of line 147 without lower()
IsDateNameCaseSensitive(name) ==
    \/ Contains(name, <<"d", "a", "t", "e">>)
    \/ Contains(name, <<"t", "i", "m", "e">>)

\* line 147: 'date' in col.lower() or 'time' in col.lower()
IsDateName(name) ==
    \/ Contains(Lower(name), <<"d", "a", "t", "e">>)
    \/ Contains(Lower(name), <<"t", "i", "m", "e">>)

\* a string that pd.to_datetime parses: the ISO dates
Parseable(v) == v < 0

\* pd.to_datetime(column, errors='coerce') (line 149).  Of an object column:
\* a parseable string becomes its instant, anything else NaT; an ISO date
\* and its instant sort alike, so the instant keeps the string's rank.  Of a
\* float column: the number x becomes the instant x nanoseconds after the
\* epoch, the fraction of a nanosecond dropped (the cell h is h / 2), NaN NaT.
ToDatetime(col) ==
    [col EXCEPT
        !.dtype = "datetime64",
        !.vals = [i \in DOMAIN col.vals |->
            IF IsNull(col.vals[i]) \/ col.dtype = "datetime64" THEN col.vals[i]
            ELSE IF col.dtype = "object"
                 THEN IF Parseable(col.vals[i][1]) THEN col.vals[i] ELSE NaN
                 ELSE <<col.vals[i][1] \div 2>>]]

\* lines 146-153: every column with a date name is parsed; the columns in
\* failing are those whose to_datetime call raised (the error is logged and
\* the loop goes on)
DatesConverted(df, failing) ==
    [j \in DOMAIN df |->
        IF IsDateName(df[j].name) /\ j \notin failing THEN ToDatetime(df[j]) ELSE df[j]]

\* line 160: select_dtypes(include=['float64', 'float32'])
IsFloat(col) == col.dtype = "float64"

\* the cells of a float column as numbers in limbs
WideCells(col) ==
    [i \in DOMAIN col.vals |->
        IF IsNull(col.vals[i]) THEN NaN ELSE <<WideOfHalves(col.vals[i][1])>>]

\* the first float column whose astype raises, 0 if none does
FirstCastRaising(df) ==
    LET bad == {j \in DOMAIN df : IsFloat(df[j]) /\ Narrowed(WideCells(df[j])).raised}
    IN  IF bad = {} THEN 0 ELSE CHOOSE j \in bad : \A k \in bad : j <= k

\* lines 162-196: the float columns are narrowed in column order, up to the
\* column whose cast raises (if any)
NumericNarrowed(df) ==
    LET stop == FirstCastRaising(df) IN
    [j \in DOMAIN df |->
        IF IsFloat(df[j]) /\ (stop = 0 \/ j < stop)
        THEN [df[j] EXCEPT !.dtype = Narrowed(WideCells(df[j])).dtype]
        ELSE df[j]]

\* the columns the typed DataFrames are made of, three rows each
TypedColumns ==
    { [name |-> <<"Q", "u", "a", "n", "t", "i", "t", "y">>, dtype |-> "float64",
       vals |-> <<<<0>>, <<200>>, <<510>>>>],                  \* 0, 100, 255
      [name |-> <<"R", "e", "t", "u", "r", "n", "s">>, dtype |-> "float64",
       vals |-> <<<<-2>>, <<0>>, <<254>>>>],                   \* -1, 0, 127
      [name |-> <<"U", "n", "i", "t", "P", "r", "i", "c", "e">>, dtype |-> "float64",
       vals |-> <<<<3>>, NaN, <<5>>>>],                        \* 1.5, NaN, 2.5
      [name |-> <<"C", "u", "s", "t", "o", "m", "e", "r", "I", "D">>, dtype |-> "float64",
       vals |-> <<<<2>>, NaN, <<4>>>>],                        \* 1, NaN, 2
      [name |-> <<"D", "i", "s", "c", "o", "u", "n", "t">>, dtype |-> "float64",
       vals |-> <<NaN, NaN, NaN>>],
      [name |-> <<"S", "e", "n", "t", "i", "m", "e", "n", "t">>, dtype |-> "float64",
       vals |-> <<<<1>>, <<2>>, <<2>>>>],                      \* 0.5, 1, 1
      [name |-> <<"I", "n", "v", "o", "i", "c", "e", "D", "a", "t", "e">>, dtype |-> "object",
       vals |-> <<<<-2>>, <<2>>, <<-1>>>>],    \* "2024-01-15", "not-a-date", "2024-01-17"
      [name |-> <<"D", "e", "s", "c", "r", "i", "p", "t", "i", "o", "n">>, dtype |-> "object",
       vals |-> <<<<1>>, NaN, <<2>>>>],
      [name |-> <<"C", "o", "u", "n", "t", "r", "y">>, dtype |-> "object",
       vals |-> <<NaN, NaN, <<1>>>>],
      [name |-> <<"T", "a", "g", "s">>, dtype |-> "object",
       vals |-> <<<<ListRank>>, NaN, <<ListRank + 1>>>>] }

\* a column read_csv can produce: its text cells are strings
IsCsvColumn(col) ==
    col.dtype = "object" => \A i \in DOMAIN col.vals :
        IsNull(col.vals[i]) \/ ~IsList(col.vals[i][1])

\* DataFrames of up to MaxCols of these columns, no label twice
TypedFrames ==
    UNION {{df \in [1..c -> TypedColumns] :
                \A i, j \in 1..c : i # j => df[i].name # df[j].name} : c \in 1..MaxCols}

TypedCsvFrames == {df \in TypedFrames : \A j \in DOMAIN df : IsCsvColumn(df[j])}

\* load_data succeeds on a file with these columns
LoadTyped ==
    /\ data = None
    /\ \E df \in TypedCsvFrames :
        /\ data' = Some(df)
        /\ given' = Some(df)
        /\ cleanerRet' = Some(df)
    /\ cleanerOp' = "load_data"
    /\ cleanerLog' = {}
    /\ UNCHANGED <<connVars, upsertVars, sessionVars, pureVars, runVars>>

\* cleaner.data = test_data with a frame no file yields
AssignTyped ==
    /\ data = None
    /\ \E df \in TypedFrames \ TypedCsvFrames :
        /\ data' = Some(df)
        /\ given' = Some(df)
    /\ cleanerOp' = "assign"
    /\ cleanerRet' = None
    /\ cleanerLog' = {}
    /\ UNCHANGED <<connVars, upsertVars, sessionVars, pureVars, runVars>>

\* correct_datatypes (lines 119-217).  Without data: error logged, None.
\* Otherwise the date columns are parsed, each in its own try (a to_datetime
\* call that raises, e.g. on a label that selects several columns, is logged
\* and skipped), then the float columns are narrowed; a cast that raises
\* ends the call in the outer except, which logs and returns None.
CorrectDatatypes ==
    /\ cleanerOp' = "correct_datatypes"
    /\ IF data = None
       THEN /\ cleanerRet' = None
            /\ cleanerLog' = WithoutData
            /\ UNCHANGED <<data, given>>
       ELSE \E failing \in SUBSET {j \in DOMAIN data[1] : IsDateName(data[1][j].name)} :
            LET dated == DatesConverted(data[1], failing)
                stop == FirstCastRaising(dated)
            IN  /\ data' = Some(NumericNarrowed(dated))
                /\ cleanerRet' = IF stop = 0 THEN data' ELSE None
                /\ cleanerLog' = {Logged("not_converted", j) : j \in failing}
                                    \cup (IF stop = 0 THEN {} ELSE {Logged("failed", stop)})
                /\ UNCHANGED given
    /\ UNCHANGED <<connVars, upsertVars, sessionVars, pureVars, runVars>>

\* the DataCleaner on labelled DataFrames
TypesNext ==
    \/ LoadTyped
    \/ LoadDataFails
    \/ AssignTyped
    \/ HandleMissingValues
    \/ CorrectDatatypes

(***************************************************************************)
(* DatabaseConnector.__init__ / _connect / _create_engine_with_retry       *)
(* (tenacity: stop_after_attempt(3), wait_exponential(multiplier=1,        *)
(* min=2, max=10), retry_if_exception_type(OperationalError),              *)
(* reraise=True).                                                          *)
(***************************************************************************)
StopAttempts == 3
WaitMultiplier == 1
WaitMin == 2
WaitMax == 10
ExpBase == 2

MaxOf(a, b) == IF a >= b THEN a ELSE b
MinOf(a, b) == IF a <= b THEN a ELSE b

\* stop_after_attempt(3): retry_state.attempt_number >= max_attempt_number
StopAfterAttempt(n) == n >= StopAttempts

\* wait_exponential without its min
WaitExponentialNoMin(n) == MinOf(WaitMultiplier * ExpBase ^ (n - 1), WaitMax)

\* wait_none
WaitNone(n) == 0

\* wait_exponential.__call__: exp = exp_base ** (attempt_number - 1);
\* max(max(0, min), min(multiplier * exp, max))
WaitExponential(n) ==
    MaxOf(MaxOf(0, WaitMin), MinOf(WaitMultiplier * ExpBase ^ (n - 1), WaitMax))

\* tenacity's default: retry on any exception
RetryIfAnyException(kind) == TRUE

\* retry_if_exception_type(OperationalError)
RetryIfExceptionType(kind) == kind = "OperationalError"

\* an exception instance: its class, the statement and the attempt that raised it
Exc(kind, stmt, n) == [kind |-> kind, stmt |-> stmt, attempt |-> n]
NoError == [kind |-> "none", stmt |-> "none", attempt |-> 0]

MaxCloses == 2

\* reraise=False: a RetryError wraps the last attempt
RaiseRetryError(e) == [kind |-> "RetryError", stmt |-> e.stmt, attempt |-> e.attempt]

\* reraise=True: the last attempt's own exception, not a RetryError around it
Reraise(e) == e

\* what the statements of _create_engine_with_retry can raise
CreateEngineErrors == {"ArgumentError"}
ConnectErrors == {"OperationalError"}
ExecuteErrors == {"OperationalError", "ProgrammingError"}

\* outcome before any DatabaseConnector call has ended
NoCall == [op |-> "none", failed |-> FALSE, logged |-> FALSE, raised |-> FALSE,
           tries |-> 0]

\* the call op returned normally; its statement was executed tries times
Returned(op, tries) ==
    [op |-> op, failed |-> FALSE, logged |-> FALSE, raised |-> FALSE, tries |-> tries]

\* an except block that logs the error and returns None
LogAndReturnNone(op, tries) ==
    [op |-> op, failed |-> TRUE, logged |-> TRUE, raised |-> FALSE, tries |-> tries]

\* except Exception as e: self.logger.error(...); raise  (lines 42-44, 73-75,
\* 137-139, 179-181): the statement of op failed at its tries-th execution
LogAndRaise(op, tries) ==
    [op |-> op, failed |-> TRUE, logged |-> TRUE, raised |-> TRUE, tries |-> tries]

\* __init__ (lines 24-27): engine = None, then _connect() calls the retrying
\* function, whose first attempt begins
Construct ==
    /\ connPc = "new"
    /\ connPc' = "create_engine"
    /\ engine' = "None"
    /\ attemptNumber' = 1
    /\ select1Ok' = FALSE
    /\ UNCHANGED <<errors, waits, raisedError, connOp, connResult, disposals>>
    /\ UNCHANGED <<cleanerVars, upsertVars, sessionVars, pureVars, runVars>>

\* tenacity's iter() on an attempt that raised kind: not retried -> raised as
\* is; stop reached -> reraise; else sleep.  _connect logs and re-raises.
AttemptRaises(kind) ==
    LET e == Exc(kind, connPc, attemptNumber) IN
    /\ errors' = Append(errors, e)
    /\ select1Ok' = FALSE
    /\ IF ~RetryIfExceptionType(kind)
       THEN /\ connPc' = "raised"
            /\ raisedError' = e
            /\ outcome' = LogAndRaise("connect", attemptNumber)
       ELSE IF StopAfterAttempt(attemptNumber)
       THEN /\ connPc' = "raised"
            /\ raisedError' = Reraise(e)
            /\ outcome' = LogAndRaise("connect", attemptNumber)
       ELSE /\ connPc' = "sleep"
            /\ UNCHANGED <<raisedError, outcome>>
    /\ UNCHANGED <<engine, attemptNumber, waits, connOp, connResult, disposals, pool, saved>>

\* line 154: engine = create_engine(connection_string)
CreateEngine ==
    /\ connPc = "create_engine"
    /\ \/ /\ connPc' = "connect"
          /\ UNCHANGED <<engine, attemptNumber, select1Ok, errors, waits, raisedError,
                         connOp, connResult, disposals, pool, outcome, saved>>
       \/ \E kind \in CreateEngineErrors : AttemptRaises(kind)
    /\ UNCHANGED <<cleanerVars, upsertVars, pureVars, runVars>>

\* line 157: with engine.connect() as conn
Connect ==
    /\ connPc = "connect"
    /\ \/ /\ connPc' = "execute"
          /\ UNCHANGED <<engine, attemptNumber, select1Ok, errors, waits, raisedError,
                         connOp, connResult, disposals, pool, outcome, saved>>
       \/ \E kind \in ConnectErrors : AttemptRaises(kind)
    /\ UNCHANGED <<cleanerVars, upsertVars, pureVars, runVars>>

\* the attempt without its liveness probe
ExecuteSelect1Skipped ==
    /\ connPc = "execute"
    /\ connPc' = "return"
    /\ UNCHANGED <<engine, attemptNumber, select1Ok, errors, waits, raisedError,
                   connOp, connResult, disposals, pool, outcome, saved>>
    /\ UNCHANGED <<cleanerVars, upsertVars, pureVars, runVars>>

\* line 158: conn.execute(text("SELECT 1"))
ExecuteSelect1 ==
    /\ connPc = "execute"
    /\ \/ /\ connPc' = "return"
          /\ select1Ok' = TRUE
          /\ UNCHANGED <<engine, attemptNumber, errors, waits, raisedError,
                         connOp, connResult, disposals, pool, outcome, saved>>
       \/ \E kind \in ExecuteErrors : AttemptRaises(kind)
    /\ UNCHANGED <<cleanerVars, upsertVars, pureVars, runVars>>

\* line 162 and line 40: return engine; self.engine = <the result>.  The
\* connection of the probe went back to the engine's pool, which keeps it open.
ReturnEngine ==
    /\ connPc = "return"
    /\ connPc' = "ready"
    /\ engine' = "Engine"
    /\ pool' = "idle"
    /\ outcome' = Returned("connect", attemptNumber)
    /\ UNCHANGED saved
    /\ UNCHANGED <<attemptNumber, select1Ok, errors, waits, raisedError,
                   connOp, connResult, disposals>>
    /\ UNCHANGED <<cleanerVars, upsertVars, pureVars, runVars>>

\* tenacity sleeps wait(retry_state) seconds, then starts the next attempt
Sleep ==
    /\ connPc = "sleep"
    /\ waits' = Append(waits, WaitExponential(attemptNumber))
    /\ attemptNumber' = attemptNumber + 1
    /\ connPc' = "create_engine"
    /\ UNCHANGED <<engine, select1Ok, errors, raisedError, connOp, connResult, disposals>>
    /\ UNCHANGED sessionVars
    /\ UNCHANGED <<cleanerVars, upsertVars, pureVars, runVars>>

\* execute_query (lines 164-181): pd.read_sql returns the rows, or the error
\* is logged and re-raised.  read_sql takes a connection from the engine's
\* pool; a failed call may have failed before it got one.
ExecuteQuery ==
    /\ connPc = "ready"
    /\ upsertPc # "loop"
    /\ connOp' = "execute_query"
    /\ \/ /\ outcome' = Returned("execute_query", 1)
          /\ pool' = "idle"
       \/ /\ outcome' = LogAndRaise("execute_query", 1)
          /\ pool' \in {pool, "idle"}
    /\ connResult' = IF outcome'.raised THEN "raised" ELSE "returned"
    /\ UNCHANGED <<connPc, engine, attemptNumber, select1Ok, errors, waits,
                   raisedError, disposals, saved>>
    /\ UNCHANGED <<cleanerVars, upsertVars, pureVars, runVars>>

\* the values of to_sql's if_exists
IfExists == {"fail", "replace", "append"}

RowsOf(t) == IF t = << >> THEN 0 ELSE t[1]

\* the most rows a saved frame has, and the most the saved table grows to
MaxSaved == 2

\* save_dataframe (lines 46-75): df.to_sql(table_name, con=self.engine,
\* if_exists=..., index=False, method="multi", chunksize=1000) for a frame of
\* n rows, or the error is logged and re-raised.  to_sql is called once.  A
\* failed "replace" leaves the table as it was (one transaction) or dropped
\* and re-created empty (pandas 1.x creates the table before the insert's
\* transaction); "fail" raises ValueError when the table exists.
SaveDataframeWith(modes) ==
    /\ connPc = "ready"
    /\ upsertPc # "loop"
    /\ connOp' = "save_dataframe"
    /\ \E n \in 1..MaxSaved, mode \in modes :
        \/ /\ mode = "fail" => saved = << >>
           /\ mode = "append" => RowsOf(saved) + n <= MaxSaved
           /\ saved' = IF mode = "append" THEN <<RowsOf(saved) + n>> ELSE <<n>>
           /\ outcome' = Returned("save_dataframe", 1)
        \/ /\ saved' \in IF mode = "replace" THEN {saved, <<0>>} ELSE {saved}
           /\ outcome' = LogAndRaise("save_dataframe", 1)
    /\ pool' = "idle"
    /\ connResult' = IF outcome'.raised THEN "raised" ELSE "returned"
    /\ UNCHANGED <<connPc, engine, attemptNumber, select1Ok, errors, waits,
                   raisedError, disposals>>
    /\ UNCHANGED <<cleanerVars, upsertVars, pureVars, runVars>>

SaveDataframe == SaveDataframeWith(IfExists)

\* close() without its test of self.engine: None has no dispose()
CloseUnguarded ==
    /\ connPc \in {"ready", "raised"}
    /\ upsertPc # "loop"
    /\ disposals < MaxCloses
    /\ connOp' = "close"
    /\ connResult' = IF engine # "None" THEN "returned" ELSE "raised"
    /\ disposals' = IF engine # "None" THEN disposals + 1 ELSE disposals
    /\ pool' = IF engine # "None" THEN "empty" ELSE pool
    /\ UNCHANGED <<connPc, engine, attemptNumber, select1Ok, errors, waits, raisedError>>
    /\ UNCHANGED <<outcome, saved>>
    /\ UNCHANGED <<cleanerVars, upsertVars, pureVars, runVars>>

\* close (lines 183-187): dispose the engine if there is one; self.engine
\* stays.  Engine.dispose() closes the pool's connections and leaves the
\* engine with a fresh, empty pool.  A connector whose constructor raised
\* has engine None (line 27): close() on it finds nothing to dispose.
Close ==
    /\ connPc \in {"ready", "raised"}
    /\ upsertPc # "loop"
    /\ disposals < MaxCloses
    /\ connOp' = "close"
    /\ connResult' = "returned"
    /\ disposals' = IF engine # "None" THEN disposals + 1 ELSE disposals
    /\ pool' = IF engine # "None" THEN "empty" ELSE pool
    /\ UNCHANGED <<connPc, engine, attemptNumber, select1Ok, errors, waits, raisedError>>
    /\ UNCHANGED <<outcome, saved>>
    /\ UNCHANGED <<cleanerVars, upsertVars, pureVars, runVars>>

ConnInit ==
    /\ connPc = "new"
    /\ engine = "None"
    /\ attemptNumber = 0
    /\ select1Ok = FALSE
    /\ errors = << >>
    /\ waits = << >>
    /\ raisedError = NoError
    /\ connOp = "none"
    /\ connResult = "none"
    /\ disposals = 0
    /\ pool = "none"
    /\ outcome = NoCall
    /\ saved = << >>

ConnNext ==
    \/ Construct
    \/ CreateEngine
    \/ Connect
    \/ ExecuteSelect1
    \/ ReturnEngine
    \/ Sleep
    \/ ExecuteQuery
    \/ SaveDataframe
    \/ Close

\* no column computation under way; no caller above the two classes
PureIdle == series = << >> /\ result = << >>
RunIdle == run = [caller |-> "none", call |-> "none", at |-> "idle"]

CleanerInit ==
    /\ data = None
    /\ given = None
    /\ cleanerOp = "init"
    /\ cleanerRet = None
    /\ cleanerLog = {}

CleanerNext ==
    \/ LoadData
    \/ LoadDataFails
    \/ AssignData
    \/ HandleMissingValues

(***************************************************************************)
(* DatabaseConnector.upsert_dataframe (lines 77-139) against a PostgreSQL  *)
(* table sales_final(id serial, InvoiceNo, StockCode, Quantity, Note) with *)
(* a unique constraint on the conflict columns.                            *)
(***************************************************************************)
NULL == "NULL"

\* table.columns of the reflected table (line 94)
TableColumns == {"id", "InvoiceNo", "StockCode", "Quantity", "Note"}

\* conflict_columns (main.py:32, data_cleaner.py:259)
ConflictColumns == {"InvoiceNo", "StockCode"}

\* the loop commits after every CommitEvery-th record (line 123)
CommitEvery == 1000

MaxRecords == 2
MaxCalls == 2
MaxRows == 2500

Invoices == {NULL, "536365"}
StockCodes == <<"71053", "85123A">>
Quantities == {1, 2}

Record(inv, code, qty) == [InvoiceNo |-> inv, StockCode |-> code, Quantity |-> qty]

\* A frame is a list of records: either the records written out (short), or
\* a long list given by its length (long > 0), whose record j is LongRecord(j).
ShortFrame(recs) == [short |-> recs, long |-> 0]
LargeFrame(n) == [short |-> << >>, long |-> n]
NoFrame == ShortFrame(<< >>)

\* record j of a long list: the stock codes alternate and the record carries
\* Quantity j, so a row tells which record wrote it last
LongRecord(j) == Record("536365", StockCodes[((j - 1) % Len(StockCodes)) + 1], j)

\* total = len(records); records[i - 1]
Total(f) == IF f.long = 0 THEN Len(f.short) ELSE f.long
RecordAt(f, i) == IF f.long = 0 THEN f.short[i] ELSE LongRecord(i)

\* the short datasets: every sequence of at most MaxRecords records
SmallFrames ==
    {ShortFrame(recs) : recs \in
        UNION {[1..n -> {Record(inv, StockCodes[c], q) :
                            inv \in Invoices, c \in DOMAIN StockCodes, q \in Quantities}]
               : n \in 0..MaxRecords}}

LargeSizes == {CommitEvery - 1, CommitEvery, CommitEvery + 1, MaxRows}

\* rows the table may hold before the first call
SeedRows ==
    {[id |-> 1, InvoiceNo |-> "536365", StockCode |-> "71053", Quantity |-> 7, Note |-> "gift"],
     [id |-> 2, InvoiceNo |-> "536365", StockCode |-> "22752", Quantity |-> 7, Note |-> NULL],
     [id |-> 3, InvoiceNo |-> NULL, StockCode |-> "71053", Quantity |-> 7, Note |-> NULL]}

\* the same dataset after an edit of the non-key column
Requantified(f) ==
    [f EXCEPT !.short = [j \in DOMAIN f.short |-> [f.short[j] EXCEPT !.Quantity = 3 - @]]]

KeyOf(r) == <<r.InvoiceNo, r.StockCode>>
HasNullKey(r) == \E c \in ConflictColumns : r[c] = NULL

MaxId(t) == IF t = {} THEN 0 ELSE CHOOSE m \in {r.id : r \in t} : \A r \in t : r.id <= m

\* the value a column takes when the INSERT does not name it
ColumnDefault(c, t) == IF c = "id" THEN MaxId(t) + 1 ELSE NULL

\* insert(table).values(**record): the row proposed for insertion (EXCLUDED)
Proposed(rec, t) ==
    [c \in TableColumns |-> IF c \in DOMAIN rec THEN rec[c] ELSE ColumnDefault(c, t)]

\* an update_dict built from the record's keys instead
UpdateColumnsOfRecord ==
    {c \in DOMAIN Record(NULL, NULL, 0) : c \notin ConflictColumns /\ c # "id"}

\* lines 109-113: update_dict
UpdateColumns == {c \in TableColumns : c \notin ConflictColumns /\ c # "id"}

\* a plain INSERT: nothing ever conflicts
NeverConflicts(r, excluded) == FALSE

\* ON CONFLICT (conflict_columns): an existing row with the same key; a NULL
\* key column never equals anything
ConflictsWith(r, excluded) ==
    \A c \in ConflictColumns : excluded[c] # NULL /\ r[c] = excluded[c]

\* ON CONFLICT DO NOTHING
DoNothing(r, excluded) == r

\* DO UPDATE SET col = EXCLUDED.col for the columns of update_dict
DoUpdate(r, excluded) ==
    [c \in TableColumns |-> IF c \in UpdateColumns THEN excluded[c] ELSE r[c]]

\* lines 106-120: one INSERT ... ON CONFLICT DO UPDATE statement
UpsertStmt(t, rec) ==
    LET excluded == Proposed(rec, t)
        hit == {r \in t : ConflictsWith(r, excluded)}
    IN  IF hit = {} THEN t \cup {excluded}
        ELSE (t \ hit) \cup {DoUpdate(r, excluded) : r \in hit}

\* autocommit: what the table would hold if every statement were durable at once
RollbackKeepsWork(committed, working) == working

\* leaving "with self.engine.connect() as conn" without a commit (an exception,
\* or the process dying) rolls the open transaction back: the table holds what
\* the last commit left
Rollback(committed, working) == committed

Committed(at, kind) == [at |-> at, kind |-> kind]

\* the checkpoint taken one record late
IsCheckpointLate(i) == i % CommitEvery = 1

\* line 123: if i % 1000 == 0
IsCheckpoint(i) == i % CommitEvery = 0

\* lines 88-103: reflect the table, build the records, open the connection
UpsertCall ==
    /\ connPc = "ready"
    /\ upsertPc \in {"idle", "done"}
    /\ calls < MaxCalls
    /\ \E f \in IF calls = 0
                THEN SmallFrames \cup {LargeFrame(n) : n \in LargeSizes}
                ELSE {records, Requantified(records)} :
        /\ f.long > 0 => calls = 0 /\ table = {}
        /\ records' = f
        /\ repeated' = (upsertPc = "done" /\ f = records)
    /\ upsertPc' = "loop"
    /\ processed' = 0
    /\ txn' = table
    /\ tableBefore' = table
    /\ commitLog' = << >>
    /\ rowsTotal' = << >>
    /\ calls' = calls + 1
    /\ UNCHANGED table
    /\ pool' = "idle"
    /\ UNCHANGED <<outcome, saved>>
    /\ UNCHANGED <<cleanerVars, connVars, pureVars, runVars>>

\* except Exception: log, raise (lines 137-139); the connection is closed
UpsertRaises ==
    /\ upsertPc' = "raised"
    /\ outcome' = LogAndRaise("upsert_dataframe", 1)
    /\ UNCHANGED <<pool, saved>>
    /\ table' = Rollback(table, txn)
    /\ txn' = table'
    /\ UNCHANGED <<records, processed, commitLog, rowsTotal, calls,
                   tableBefore, repeated>>

\* lines 104-127: one pass of the loop body for record i = processed + 1
UpsertRow ==
    /\ upsertPc = "loop"
    /\ processed < Total(records)
    /\ LET i == processed + 1
           after == UpsertStmt(txn, RecordAt(records, i))
       IN  \/ /\ ~IsCheckpoint(i)
              /\ txn' = after
              /\ processed' = i
              /\ UNCHANGED <<table, commitLog, upsertPc>>
              /\ UNCHANGED sessionVars
              /\ UNCHANGED <<records, rowsTotal, calls, tableBefore, repeated>>
           \/ /\ IsCheckpoint(i)
              /\ txn' = after
              /\ table' = after
              /\ processed' = i
              /\ commitLog' = Append(commitLog, Committed(i, "checkpoint"))
              /\ UNCHANGED upsertPc
              /\ UNCHANGED sessionVars
              /\ UNCHANGED <<records, rowsTotal, calls, tableBefore, repeated>>
           \/ \* conn.execute raises
              UpsertRaises
           \/ \* conn.execute succeeds, the checkpoint's conn.commit() raises
              /\ IsCheckpoint(i)
              /\ UpsertRaises
    /\ UNCHANGED <<cleanerVars, connVars, pureVars, runVars>>

\* lines 129-135: the final commit, then "Upsert abgeschlossen" with rows_total
UpsertFinish ==
    /\ upsertPc = "loop"
    /\ processed = Total(records)
    /\ \/ /\ table' = txn
          /\ commitLog' = Append(commitLog, Committed(processed, "final"))
          /\ rowsTotal' = <<Total(records)>>
          /\ upsertPc' = "done"
          /\ outcome' = Returned("upsert_dataframe", 1)
          /\ UNCHANGED <<pool, saved>>
          /\ UNCHANGED <<txn, records, processed, calls, tableBefore, repeated>>
       \/ UpsertRaises
    /\ UNCHANGED <<cleanerVars, connVars, pureVars, runVars>>

\* the process is killed inside the loop: the server rolls the transaction back
Abort ==
    /\ upsertPc = "loop"
    /\ upsertPc' = "aborted"
    /\ table' = Rollback(table, txn)
    /\ txn' = table'
    /\ UNCHANGED <<records, processed, commitLog, rowsTotal, calls,
                   tableBefore, repeated>>
    /\ UNCHANGED <<cleanerVars, connVars, sessionVars, pureVars, runVars>>

UpsertNext ==
    \/ UpsertCall
    \/ UpsertRow
    \/ UpsertFinish
    \/ Abort

\* upsert_dataframe called with a frame of one record, as one of the calls a
\* program makes on its connector
OneRecordFrames ==
    {ShortFrame(<<Record("536365", StockCodes[1], q)>>) : q \in Quantities}

UpsertOneRecord ==
    /\ UpsertCall
    /\ records' \in OneRecordFrames

\* the methods of one DatabaseConnector in any order the caller chooses
PersistNext ==
    \/ ConnNext
    \/ UpsertOneRecord
    \/ UpsertRow
    \/ UpsertFinish

(***************************************************************************)
(* The callers: main.py (lines 11-35) and DataCleaner.save_to_database /   *)
(* upsert_to_database (lines 219-275).  run.at is "idle", "clean" (main is *)
(* at its DataCleaner calls; which one is next shows in cleanerOp),        *)
(* "write" (save_to_database / upsert_to_database is running; how far      *)
(* shows in connPc, upsertPc, connOp), "returned" or "raised".             *)
(***************************************************************************)
Run(caller, call, at) == [caller |-> caller, call |-> call, at |-> at]

NotRunning == Run("none", "none", "idle")

QuantityName == <<"Q", "u", "a", "n", "t", "i", "t", "y">>
UnitPriceName == <<"U", "n", "i", "t", "P", "r", "i", "c", "e">>
TotalPriceName == <<"T", "o", "t", "a", "l", "P", "r", "i", "c", "e">>

\* name in df.columns
HasColumn(df, name) == \E j \in DOMAIN df : df[j].name = name

ColumnNamed(df, name) == df[CHOOSE j \in DOMAIN df : df[j].name = name]

\* df['Quantity'] * df['UnitPrice'] (cells are halves: (q / 2) * (p / 2))
Product(q, p) ==
    [i \in DOMAIN q.vals |->
        IF IsNull(q.vals[i]) \/ IsNull(p.vals[i]) THEN NaN
        ELSE <<(q.vals[i][1] * p.vals[i][1]) \div 2>>]

\* lines 262-263 raise KeyError on a frame without the two columns
TotalPriceRaises(df) ==
    /\ ~HasColumn(df, TotalPriceName)
    /\ ~(HasColumn(df, QuantityName) /\ HasColumn(df, UnitPriceName))

\* lines 262-263: if 'TotalPrice' not in df.columns:
\*                    df['TotalPrice'] = df['Quantity'] * df['UnitPrice']
WithTotalPrice(df) ==
    IF HasColumn(df, TotalPriceName) THEN df
    ELSE Append(df, [name |-> TotalPriceName, dtype |-> "float64",
                     vals |-> Product(ColumnNamed(df, QuantityName),
                                      ColumnNamed(df, UnitPriceName))])

\* main.py starts: line 12
MainStart ==
    /\ run = NotRunning
    /\ run' = Run("main", "none", "clean")
    /\ UNCHANGED <<cleanerVars, connVars, upsertVars, sessionVars, pureVars>>

\* line 15: cleaner.load_data()
MainLoad ==
    /\ run.at = "clean"
    /\ cleanerOp = "init"
    /\ LoadTyped

MainLoadFails ==
    /\ run.at = "clean"
    /\ cleanerOp = "init"
    /\ LoadDataFails

\* line 18: cleaner.handle_missing_values()
MainImpute ==
    /\ run.at = "clean"
    /\ cleanerOp = "load_data"
    /\ HandleMissingValues

\* line 21: cleaner.correct_datatypes()
MainCorrect ==
    /\ run.at = "clean"
    /\ cleanerOp = "handle_missing_values"
    /\ CorrectDatatypes

\* main has reached line 15 only
AfterLoad == cleanerOp = "load_data"

\* main has passed line 21
ReadyToWrite == cleanerOp = "correct_datatypes"

\* lines 25-33 and 254-263: print(cleaner.data.head()) raises AttributeError
\* when nothing was loaded, and the script ends; otherwise
\* upsert_to_database(cleaner.data, ...) is entered and adds TotalPrice to
\* the frame, or raises KeyError, which its except logs and re-raises
MainUpsertToDatabase ==
    /\ run.at = "clean"
    /\ ReadyToWrite
    /\ IF data = None
       THEN /\ run' = Run("main", "none", "raised")
            /\ UNCHANGED cleanerVars
       ELSE IF TotalPriceRaises(data[1])
       THEN /\ run' = Run("main", "upsert_to_database", "raised")
            /\ UNCHANGED cleanerVars
       ELSE /\ run' = Run("main", "upsert_to_database", "write")
            /\ data' = Some(WithTotalPrice(data[1]))
            /\ UNCHANGED <<given, cleanerOp, cleanerRet, cleanerLog>>
    /\ UNCHANGED <<connVars, upsertVars, sessionVars, pureVars>>

\* save_to_database(df) called on a cleaner (lines 227-228)
SaveToDatabase ==
    /\ run = NotRunning
    /\ run' = Run("direct", "save_to_database", "write")
    /\ UNCHANGED <<cleanerVars, connVars, upsertVars, sessionVars, pureVars>>

\* lines 230 / 265: db = DatabaseConnector()
WriteConnect ==
    /\ run.at = "write"
    /\ \/ Construct
       \/ CreateEngine
       \/ Connect
       \/ ExecuteSelect1
       \/ ReturnEngine
       \/ Sleep

\* line 231: db.save_dataframe(df, table_name, if_exists='replace')
WriteSave ==
    /\ run.at = "write"
    /\ run.call = "save_to_database"
    /\ connOp = "none"
    /\ SaveDataframeWith({"replace"})

\* line 266: db.upsert_dataframe(df, table_name, conflict_columns).  The
\* records are those of the frame; the model writes one record for it.
WriteUpsert ==
    /\ run.at = "write"
    /\ run.call = "upsert_to_database"
    /\ upsertPc = "idle"
    /\ UpsertOneRecord

WriteUpsertRow ==
    /\ run.at = "write"
    /\ UpsertRow

WriteUpsertFinish ==
    /\ run.at = "write"
    /\ UpsertFinish

\* the write of the running call has returned
WriteDone ==
    \/ run.call = "save_to_database" /\ connOp = "save_dataframe" /\ connResult = "returned"
    \/ run.call = "upsert_to_database" /\ upsertPc = "done"

\* the constructor or the write of the running call has raised
WriteFailed ==
    \/ connPc = "raised"
    \/ run.call = "save_to_database" /\ connOp = "save_dataframe" /\ connResult = "raised"
    \/ run.call = "upsert_to_database" /\ upsertPc = "raised"

\* lines 232 / 267: db.close(), reached when the write returned
WriteClose ==
    /\ run.at = "write"
    /\ WriteDone
    /\ connOp # "close"
    /\ Close

\* lines 234 / 269: the call logs its success and returns
WriteReturn ==
    /\ run.at = "write"
    /\ connOp = "close"
    /\ run' = [run EXCEPT !.at = "returned"]
    /\ UNCHANGED <<cleanerVars, connVars, upsertVars, sessionVars, pureVars>>

\* lines 236-238 / 273-275: except Exception: log, raise.  db.close() was
\* not reached and the except block does not call it.
WriteRaise ==
    /\ run.at = "write"
    /\ WriteFailed
    /\ run' = [run EXCEPT !.at = "raised"]
    /\ UNCHANGED <<cleanerVars, connVars, upsertVars, sessionVars, pureVars>>

PipelineNext ==
    \/ MainStart
    \/ MainLoad
    \/ MainLoadFails
    \/ MainImpute
    \/ MainCorrect
    \/ MainUpsertToDatabase
    \/ SaveToDatabase
    \/ WriteConnect
    \/ WriteSave
    \/ WriteUpsert
    \/ WriteUpsertRow
    \/ WriteUpsertFinish
    \/ WriteClose
    \/ WriteReturn
    \/ WriteRaise

\* a connector whose first connection attempt succeeded, in front of a table
\* holding some of the seed rows
UpsertInit ==
    /\ CleanerInit
    /\ connPc = "ready"
    /\ engine = "Engine"
    /\ attemptNumber = 1
    /\ select1Ok = TRUE
    /\ errors = << >>
    /\ waits = << >>
    /\ raisedError = NoError
    /\ connOp = "none"
    /\ connResult = "none"
    /\ disposals = 0
    /\ pool = "idle"
    /\ outcome = Returned("connect", 1)
    /\ saved = << >>
    /\ PureIdle
    /\ RunIdle
    /\ table \in SUBSET SeedRows
    /\ txn = table
    /\ tableBefore = table
    /\ records = NoFrame
    /\ processed = 0
    /\ upsertPc = "idle"
    /\ commitLog = << >>
    /\ rowsTotal = << >>
    /\ calls = 0
    /\ repeated = FALSE

(***************************************************************************)
(* Claims about handle_missing_values (SpecCleaner)                        *)
(***************************************************************************)
AfterImputation == cleanerOp = "handle_missing_values" /\ data # None

AllNullNumeric(col) == col.dtype = "float64" /\ NullCount(col) = Len(col.vals)

\* C1 as stated: after handle_missing_values returns, every column of every
\* Dataset (all-null columns included) has null count 0, and the row count is
\* the one before the call.
C1_EveryColumnHasNoNulls ==
    AfterImputation =>
        /\ \A j \in DOMAIN data[1] : NullCount(data[1][j]) = 0
        /\ RowCount(data[1]) = RowCount(given[1])

\* C1 amended: after handle_missing_values returns, the row count and the
\* columns are those before the call; every text column, and every numeric
\* column that held at least one value, has null count 0; a numeric column
\* whose values are all null is left as it was (its median is NaN).
C1_ImputedUnlessAllNullNumeric ==
    AfterImputation =>
        /\ RowCount(data[1]) = RowCount(given[1])
        /\ Len(data[1]) = Len(given[1])
        /\ \A j \in DOMAIN data[1] :
            IF AllNullNumeric(given[1][j])
            THEN data[1][j] = given[1][j]
            ELSE NullCount(data[1][j]) = 0

\* a numeric column with a null and a value beside an all-null text column,
\* both without nulls after the call
C1_Witness ==
    /\ AfterImputation
    /\ \E j, k \in DOMAIN data[1] :
        /\ given[1][j].dtype = "float64"
        /\ NullCount(given[1][j]) > 0
        /\ ~AllNullNumeric(given[1][j])
        /\ given[1][k].dtype = "object"
        /\ NullCount(given[1][k]) = RowCount(given[1])
        /\ NullCount(data[1][j]) = 0
        /\ NullCount(data[1][k]) = 0

(***************************************************************************)
(* Claims about upsert_dataframe (SpecUpsert)                              *)
(***************************************************************************)
KeysOf(f) == {KeyOf(RecordAt(f, j)) : j \in 1..Total(f)}
NoNullKeys(f) == \A j \in 1..Total(f) : ~HasNullKey(RecordAt(f, j))
RowsWithKey(t, k) == {r \in t : KeyOf(r) = k}
OtherRows(t, f) == LET keys == KeysOf(f) IN {r \in t : KeyOf(r) \notin keys}

\* the last record of frame f that carries key k (k is a key of f)
RECURSIVE LastIndexWith(_, _, _)
LastIndexWith(f, k, j) ==
    IF j = 0 \/ KeyOf(RecordAt(f, j)) = k THEN j ELSE LastIndexWith(f, k, j - 1)

LastRecordWith(f, k) == RecordAt(f, LastIndexWith(f, k, Total(f)))

\* C2: for any table and any dataset without null conflict keys, after a
\* completed upsert the table holds exactly one row per distinct conflict key
\* of the dataset plus the rows it held under other keys, and a repeated call
\* with the same dataset adds no row.
C2_OneRowPerKey ==
    (upsertPc = "done" /\ NoNullKeys(records)) =>
        /\ \A k \in KeysOf(records) : Cardinality(RowsWithKey(table, k)) = 1
        /\ OtherRows(table, records) = OtherRows(tableBefore, records)
        /\ Cardinality(table) = Cardinality(OtherRows(tableBefore, records))
                                + Cardinality(KeysOf(records))
        /\ repeated => Cardinality(table) = Cardinality(tableBefore)

\* a repeated call of a dataset with two records has completed on a table that
\* also holds a row under another key
C2_Witness ==
    /\ upsertPc = "done"
    /\ repeated
    /\ NoNullKeys(records)
    /\ Total(records) = 2
    /\ OtherRows(table, records) # {}

\* C3: after a completed upsert, the row of each (non-null) conflict key holds,
\* in every column that is neither a conflict column nor "id", the value the
\* last record with that key proposed for insertion (the record's own value
\* for each column the record has); a row that existed under the key is that
\* same row (same id), updated in place.
C3_UpdatedInPlace ==
    upsertPc = "done" =>
        \A k \in KeysOf(records) :
            LET rec == LastRecordWith(records, k) IN
            ~HasNullKey(rec) =>
                /\ \E r \in table :
                    /\ KeyOf(r) = k
                    /\ \A c \in UpdateColumns \cap DOMAIN rec : r[c] = rec[c]
                    /\ \A c \in UpdateColumns : r[c] = Proposed(rec, tableBefore)[c]
                /\ \A old \in RowsWithKey(tableBefore, k) :
                    \E r \in table : r.id = old.id /\ KeyOf(r) = k

\* an existing row kept its id and took a new Quantity from the record
C3_Witness ==
    /\ upsertPc = "done"
    /\ \E old \in tableBefore :
        \E r \in table :
            /\ r.id = old.id
            /\ KeyOf(r) = KeyOf(old)
            /\ r.Quantity # old.Quantity
            /\ KeyOf(old) \in KeysOf(records)
            /\ r.Quantity = LastRecordWith(records, KeyOf(old)).Quantity

\* C4: a completed upsert of N records has committed floor(N/1000) times inside
\* the loop, the m-th time right after record 1000*m, then once more at the
\* end, and reports rows_total = N; while the loop runs, the commits made are
\* those of the records processed.
C4_CheckpointCommits ==
    /\ upsertPc = "loop" => Len(commitLog) = processed \div 1000
    /\ upsertPc = "done" =>
        LET n == Total(records)
            k == n \div 1000
        IN  /\ Len(commitLog) = k + 1
            /\ \A m \in 1..k : commitLog[m] = Committed(1000 * m, "checkpoint")
            /\ commitLog[k + 1] = Committed(n, "final")
            /\ rowsTotal = <<n>>

\* the longest dataset (2500 records) went through: two checkpoints, one final
C4_Witness ==
    /\ upsertPc = "done"
    /\ Total(records) = MaxRows
    /\ Len(commitLog) = 3
    /\ commitLog[2] = Committed(2 * CommitEvery, "checkpoint")
    /\ commitLog[3].kind = "final"
    /\ rowsTotal = <<MaxRows>>

CommittedCount == IF commitLog = << >> THEN 0 ELSE commitLog[Len(commitLog)].at

\* the rows a long frame leaves when exactly its first c records are applied
\* to an empty table
LargeFrameRows(c) ==
    {[id |-> q, InvoiceNo |-> "536365", StockCode |-> StockCodes[q],
      Quantity |-> CHOOSE j \in 1..c :
                      /\ ((j - 1) % Len(StockCodes)) + 1 = q
                      /\ j > c - Len(StockCodes),
      Note |-> NULL] : q \in {q \in DOMAIN StockCodes : q <= c}}

\* C5: when an upsert is aborted or fails while processing record i (the loop
\* had processed i-1 records), the table holds exactly what the last
\* checkpoint committed, the records 1 .. 1000*floor((i-1)/1000), and nothing
\* of a later record; the committed count never exceeds the processed count
\* and never decreases.
C5_DurableUpToCheckpoint ==
    /\ CommittedCount <= processed
    /\ \A m \in 1..(Len(commitLog) - 1) : commitLog[m].at <= commitLog[m + 1].at
    /\ upsertPc \in {"raised", "aborted"} =>
        LET c == 1000 * (processed \div 1000) IN
        /\ CommittedCount = c
        /\ txn = table
        /\ c = 0 => table = tableBefore
        /\ records.long > 0 => table = LargeFrameRows(c)

\* a statement failed after the first checkpoint, between two checkpoints
C5_Witness ==
    /\ upsertPc = "raised"
    /\ processed > CommitEvery + 1
    /\ ~IsCheckpoint(processed)
    /\ table = LargeFrameRows(CommitEvery)


(***************************************************************************)
(* Claims about the construction of a DatabaseConnector (SpecConnector)    *)
(***************************************************************************)
AllOperational == \A m \in DOMAIN errors : errors[m].kind = "OperationalError"

RECURSIVE SumOf(_)
SumOf(s) == IF s = << >> THEN 0 ELSE Head(s) + SumOf(Tail(s))

\* C6: when every attempt fails with an OperationalError, there are exactly 3
\* attempts, never a 4th, and DatabaseConnector() raises the third attempt's
\* own exception, not a wrapper.
C6_ThreeAttemptsThenReraise ==
    /\ attemptNumber <= 3
    /\ Len(errors) <= 3
    /\ (connPc = "raised" /\ AllOperational) =>
        /\ attemptNumber = 3
        /\ Len(errors) = 3
        /\ raisedError = errors[3]
        /\ raisedError.kind = "OperationalError"
        /\ engine = "None"

\* three attempts failed with an OperationalError and the constructor raised
C6_Witness ==
    /\ connPc = "raised"
    /\ AllOperational
    /\ Len(errors) = 3
    /\ Len(waits) = 2

C8_WaitsTwoThenFour ==
    /\ Len(waits) >= 1 => waits[1] = 2
    /\ Len(waits) >= 2 => waits[2] = 4
    /\ \A m \in DOMAIN waits : 2 <= waits[m] /\ waits[m] <= 10

\* C8 amended: 2 seconds before the 2nd attempt and 2 seconds before the 3rd
\* (1 * 2^0 = 1 and 1 * 2^1 = 2, both raised to the minimum of 2); every wait
\* within 2..10 seconds.
C8_WaitsTwoThenTwo ==
    /\ Len(waits) >= 1 => waits[1] = 2
    /\ Len(waits) >= 2 => waits[2] = 2
    /\ \A m \in DOMAIN waits : 2 <= waits[m] /\ waits[m] <= 10

\* tenacity slept before the 2nd and before the 3rd attempt
C8_Witness == Len(waits) = 2 /\ attemptNumber = 3

\* C9: first attempt fails with an OperationalError, second succeeds: the
\* connector is constructed with an engine after exactly 2 attempts and the
\* time waited is at least the first backoff interval (2 seconds).
C9_SecondAttemptSucceeds ==
    (connPc = "ready" /\ Len(errors) = 1 /\ errors[1].kind = "OperationalError") =>
        /\ engine = "Engine"
        /\ attemptNumber = 2
        /\ Len(waits) = 1
        /\ SumOf(waits) >= 2

\* SELECT 1 failed in attempt 1 (the test's scenario), attempt 2 returned
C9_Witness ==
    /\ connPc = "ready"
    /\ errors = <<Exc("OperationalError", "execute", 1)>>
    /\ engine = "Engine"
    /\ attemptNumber = 2

\* C10: self.engine is set only by an attempt whose SELECT 1 succeeded and only
\* once the constructor has returned; a constructor that raised leaves no
\* engine and hands the caller an exception.
C10_EngineOnlyAfterSelect1 ==
    /\ engine = "Engine" => select1Ok /\ connPc = "ready"
    /\ connPc = "ready" => engine = "Engine" /\ Len(errors) = attemptNumber - 1
    /\ connPc = "raised" => engine = "None" /\ raisedError # NoError

\* a constructor that needed all three attempts holds a probed engine
C10_Witness ==
    /\ connPc = "ready"
    /\ engine = "Engine"
    /\ select1Ok
    /\ attemptNumber = 3

(***************************************************************************)
(* C21: the update set of an upsert statement                              *)
(***************************************************************************)
\* the existing rows the record's key conflicts with
ConflictingRows(t, rec) ==
    {r \in t : \A k \in ConflictColumns : rec[k] # NULL /\ r[k] = rec[k]}

\* C21: each upsert statement whose record conflicts with an existing row
\* leaves that row (same id, same key) holding, in every table column that is
\* neither a conflict column nor "id", the value proposed for insertion: the
\* record's value for a column of the dataset, and the column default (NULL)
\* for a table column the dataset does not contain, whatever the row held
C21_UpdateSetFromTableColumns ==
    [][(upsertPc = "loop" /\ processed' = processed + 1) =>
        LET rec == RecordAt(records, processed') IN
        \A r \in ConflictingRows(txn, rec) :
            \E u \in txn' :
                /\ u.id = r.id
                /\ \A c \in ConflictColumns : u[c] = r[c]
                /\ \A c \in TableColumns \ (ConflictColumns \cup {"id"}) :
                        u[c] = IF c \in DOMAIN rec THEN rec[c] ELSE NULL]_vars

\* a completed upsert hit a row that held a Note, a column the dataset does
\* not contain, and the row's Note is gone
C21_Witness ==
    /\ upsertPc = "done"
    /\ Total(records) > 0
    /\ "Note" \notin DOMAIN RecordAt(records, 1)
    /\ \E old \in tableBefore :
        /\ old.Note # NULL
        /\ ConflictingRows({old}, RecordAt(records, Total(records))) # {}
        /\ \E u \in table : u.id = old.id /\ u.Note = NULL

(***************************************************************************)
(* C19, C20: the callers                                                   *)
(***************************************************************************)
\* C19: when save_to_database or upsert_to_database has finished, by
\* returning or by raising, the connection it opened is closed: the
\* engine's pool holds no open connection
C19_HandleClosedOnEveryExit ==
    (run.call \in {"save_to_database", "upsert_to_database"}
        /\ run.at \in {"returned", "raised"}) => pool # "idle"

\* the database has been touched: a connector is under construction or
\* exists, or rows were written
DatabaseTouched ==
    \/ connPc # "new"
    \/ pool # "none"
    \/ upsertPc # "idle"
    \/ table # {} \/ txn # {}
    \/ saved # << >>

\* C20: in a run of main.py the connection is opened and the first write
\* issued only after load_data, handle_missing_values and correct_datatypes
\* have returned, in that order; and after a failed load_data the run ends
\* (by an error) without opening a connection or writing a row
C20_WriteOnlyAfterCleaning ==
    [][run'.caller = "main" =>
        /\ cleanerOp' # cleanerOp =>
                <<cleanerOp, cleanerOp'>> \in {<<"init", "load_data">>,
                                               <<"load_data", "handle_missing_values">>,
                                               <<"handle_missing_values", "correct_datatypes">>}
        /\ DatabaseTouched' =>
                /\ cleanerOp' = "correct_datatypes"
                /\ given' # None
                /\ run'.call = "upsert_to_database"
        /\ (given' = None /\ cleanerOp' # "init") =>
                /\ ~DatabaseTouched'
                /\ run'.call = "none"
                /\ run'.at \in {"clean", "raised"}]_vars

\* a run of main.py that loaded, cleaned, connected, wrote a row and returned
C20_Witness ==
    /\ run = Run("main", "upsert_to_database", "returned")
    /\ cleanerOp = "correct_datatypes"
    /\ upsertPc = "done"
    /\ table # {}
    /\ pool = "empty"

(***************************************************************************)
(* C18: close()                                                            *)
(***************************************************************************)
\* C18: every close(), the first, a later one, one on a connector that never
\* got its engine, returns without error and leaves the connector released:
\* the engine attribute as it was, no connection held by its pool; a close()
\* of a released connector changes nothing
C18_CloseIsIdempotent ==
    [][Close =>
        /\ connResult' = "returned"
        /\ engine' = engine
        /\ connPc' = connPc
        /\ pool' = IF engine = "None" THEN "none" ELSE "empty"
        /\ pool # "idle" => pool' = pool
        /\ UNCHANGED <<table, txn, saved, outcome>>]_vars

\* close() was called twice and more on an opened connector, the last time
\* on the released one
C18_Witness ==
    /\ connOp = "close"
    /\ connResult = "returned"
    /\ disposals >= 2
    /\ pool = "empty"
    /\ engine = "Engine"

(***************************************************************************)
(* C14 - C17: the DataCleaner on labelled DataFrames                       *)
(***************************************************************************)
\* C14: when the cleaner holds no Dataset (load_data never called, or
\* failed), handle_missing_values and correct_datatypes log the not-loaded
\* condition and return None without raising, and the cleaner still holds
\* no Dataset afterwards
C14_NotLoadedIsReportedAsAbsent ==
    /\ data = None <=> given = None
    /\ (cleanerOp \in {"handle_missing_values", "correct_datatypes"} /\ given = None) =>
            /\ data = None
            /\ cleanerRet = None
            /\ cleanerLog = {Logged("not_loaded", 0)}

\* correct_datatypes has just been called on a cleaner without data
C14_Witness ==
    /\ cleanerOp = "correct_datatypes"
    /\ given = None
    /\ data = None
    /\ cleanerRet = None

\* the column was imputed as lines 87-104 impute it
ImputedColumn(before, after) == after = FillCategorical(FillNumeric(before))

\* C15: when the imputation of one column fails, that column keeps its
\* values and every other column of the Dataset that has nulls is still
\* imputed by the same call
C15_FailureIsolatedToColumn ==
    [][(data # None /\ HandleMissingValues /\ FirstFillRaising(data[1]) # 0) =>
        LET stop == FirstFillRaising(data[1]) IN
        /\ data'[1][stop] = data[1][stop]
        /\ \A j \in DOMAIN data[1] :
            (j # stop /\ ~FillRaises(data[1][j]) /\ NullCount(data[1][j]) > 0) =>
                ImputedColumn(data[1][j], data'[1][j])]_vars

\* the label contains "date" or "time", whatever the case of its letters
HasDateOrTime(name) ==
    \E i \in 1..(Len(name) - 3) :
        SubSeq(Lower(name), i, i + 3) \in {<<"d", "a", "t", "e">>, <<"t", "i", "m", "e">>}

\* the cell after is what parsing makes of the cell before
ParsedCell(dtype, before, after) ==
    IF IsNull(before) THEN IsNull(after)
    ELSE IF dtype = "object"
         THEN IsNull(after) <=> ~Parseable(before[1])
         ELSE ~IsNull(after)

\* C16: correct_datatypes parses every column whose label contains "date"
\* or "time" in any case: the column becomes a timestamp column, each
\* parseable value a timestamp, each unparseable value null; the call
\* returns instead of raising; and a column whose parsing raised is left as
\* it was while the other date columns are still parsed and the float
\* columns still narrowed
C16_DateColumnsParsed ==
    [][(data # None /\ CorrectDatatypes) =>
        /\ Len(data'[1]) = Len(data[1])
        /\ \A j \in DOMAIN data[1] :
            LET before == data[1][j]
                after == data'[1][j]
            IN  IF HasDateOrTime(before.name)
                THEN IF Logged("not_converted", j) \in cleanerLog'
                     THEN after = before
                     ELSE /\ after.dtype = "datetime64"
                          /\ after.name = before.name
                          /\ Len(after.vals) = Len(before.vals)
                          /\ \A i \in DOMAIN before.vals :
                                before.dtype = "datetime64"
                                \/ ParsedCell(before.dtype, before.vals[i], after.vals[i])
                ELSE (before.dtype = "float64" /\ cleanerRet' # None) =>
                        after.dtype = SelectDtype(WideCells(before))]_vars

\* the parsing of the first column raised, the date column after it was
\* parsed all the same and its "not-a-date" became null
C16_Witness ==
    /\ cleanerOp = "correct_datatypes"
    /\ Logged("not_converted", 1) \in cleanerLog
    /\ Len(data[1]) = 2
    /\ data[1][2].dtype = "datetime64"
    /\ given[1][2].dtype = "object"
    /\ ~IsNull(given[1][2].vals[2])
    /\ IsNull(data[1][2].vals[2])
    /\ ~IsNull(data[1][2].vals[1])

HasFraction(col) == \E i \in DOMAIN col.vals : ~IsNull(col.vals[i]) /\ col.vals[i][1] % 2 = 1

IntDtypes == {"Int8", "Int16", "Int32", "Int64"}

\* C17 as stated: a float column with a fractional non-null value is left by
\* correct_datatypes a float column with every value unchanged, and only
\* columns whose non-null values are all integral are narrowed
C17_FractionalColumnUntouched ==
    [][(data # None /\ CorrectDatatypes) =>
        \A j \in DOMAIN data[1] :
            /\ (data[1][j].dtype = "float64" /\ HasFraction(data[1][j])) =>
                    data'[1][j] = data[1][j]
            /\ (data[1][j].dtype = "float64" /\ data'[1][j].dtype \in IntDtypes) =>
                    ~HasFraction(data[1][j])]_vars

\* C17: a float column with a fractional non-null value whose label
\* contains neither "date" nor "time" is left by correct_datatypes a float
\* column with every value unchanged, and only columns whose non-null
\* values are all integral are narrowed
C17_FractionalColumnUntouchedUnlessDateNamed ==
    [][(data # None /\ CorrectDatatypes) =>
        \A j \in DOMAIN data[1] :
            /\ (data[1][j].dtype = "float64" /\ HasFraction(data[1][j])
                    /\ ~HasDateOrTime(data[1][j].name)) =>
                    data'[1][j] = data[1][j]
            /\ (data[1][j].dtype = "float64" /\ data'[1][j].dtype \in IntDtypes) =>
                    ~HasFraction(data[1][j])]_vars

\* correct_datatypes has run on a frame with a fractional float column next
\* to a float column that was narrowed
C17_Witness ==
    /\ cleanerOp = "correct_datatypes"
    /\ data # None
    /\ Len(data[1]) = 2
    /\ data[1][1].dtype = "float64"
    /\ HasFraction(data[1][1])
    /\ ~HasDateOrTime(data[1][1].name)
    /\ data[1][2].dtype = "Int8"
    /\ cleanerRet = data

(***************************************************************************)
(* C13: failures of the persistence layer                                  *)
(***************************************************************************)
\* C13: a failure of upsert_dataframe, save_dataframe, execute_query or of
\* the connection setup is logged and raised to the caller, never turned
\* into a normal return; the failed statement, write or query was executed
\* once, not retried; a failed upsert_dataframe has left the loop
C13_FailuresLoggedAndRaised ==
    /\ outcome.failed => outcome.logged /\ outcome.raised
    /\ (outcome.failed /\ outcome.op # "connect") => outcome.tries = 1
    /\ (outcome.failed /\ outcome.op = "upsert_dataframe") => upsertPc = "raised"
    /\ (connOp \in {"save_dataframe", "execute_query"} /\ outcome.op = connOp) =>
            (outcome.failed <=> connResult = "raised")
    /\ connPc = "raised" <=> (outcome.failed /\ outcome.op = "connect")

\* an upsert_dataframe whose final commit failed after a write that followed
\* a failed save_dataframe
C13_Witness ==
    /\ outcome = LogAndRaise("upsert_dataframe", 1)
    /\ upsertPc = "raised"
    /\ processed = Total(records)
    /\ processed > 0
    /\ connOp = "save_dataframe"
    /\ connResult = "raised"

(***************************************************************************)
(* C12: the tie-break of the mode                                          *)
(***************************************************************************)
\* the non-null values of the column that share the highest frequency
TiedValues(vals) == {Mode(vals)[i] : i \in DOMAIN Mode(vals)}

HasNullAndTie(vals) ==
    /\ \E i \in DOMAIN vals : IsNull(vals[i])
    /\ Cardinality(TiedValues(vals)) >= 2

\* the tied value met first in row order
FirstSeenTied(vals) ==
    LET i == CHOOSE k \in DOMAIN vals :
                 /\ ~IsNull(vals[k]) /\ vals[k][1] \in TiedValues(vals)
                 /\ \A m \in 1..(k - 1) : IsNull(vals[m]) \/ vals[m][1] \notin TiedValues(vals)
    IN  vals[i][1]

\* the tied value that sorts first
SmallestTied(vals) == CHOOSE v \in TiedValues(vals) : \A w \in TiedValues(vals) : v <= w

FilledWith(v) ==
    /\ Len(result[1]) = Len(series)
    /\ \A i \in DOMAIN series :
        result[1][i] = IF IsNull(series[i]) THEN <<v>> ELSE series[i]

NonNegativeIntegral(cells) ==
    /\ NumbersOf(cells) # {}
    /\ AllIntegral(cells)
    /\ WLeq(WideOfInt(0), WMin(NumbersOf(cells)))

\* the width the claim names for the column's maximum
ClaimedBits(cells) ==
    LET col_max == WMax(NumbersOf(cells)) IN
    IF WLess(col_max, UInt8End) THEN 8
    ELSE IF WLess(col_max, UInt16End) THEN 16
    ELSE IF WLess(col_max, UInt32End) THEN 32
    ELSE 64

BitsOf(dtype) ==
    IF dtype = "Int8" THEN 8 ELSE IF dtype = "Int16" THEN 16
    ELSE IF dtype = "Int32" THEN 32 ELSE 64

\* C11: a float column whose non-null values are all integral and >= 0 is
\* given 8 bits if max < 256, else 16 if max < 65536, else 32 if max < 2^32,
\* else 64, and the type selected holds every value of the column without
\* loss: the cast succeeds and the column has the selected type.
C11_NarrowedWithoutLoss ==
    (result # << >> /\ NonNegativeIntegral(series)) =>
        /\ result[1].selected # "float64"
        /\ BitsOf(result[1].selected) = ClaimedBits(series)
        /\ \A x \in NumbersOf(series) : Fits(result[1].selected, x)
        /\ ~result[1].raised
        /\ result[1].dtype = result[1].selected

UpsertIdle ==
    /\ table = {}
    /\ txn = {}
    /\ records = NoFrame
    /\ processed = 0
    /\ upsertPc = "idle"
    /\ commitLog = << >>
    /\ rowsTotal = << >>
    /\ calls = 0
    /\ tableBefore = {}
    /\ repeated = FALSE

\* a fresh process: no cleaner data, no connector, an untouched table
Init == CleanerInit /\ ConnInit /\ UpsertIdle /\ PureIdle /\ RunIdle

\* one float column with values around the thresholds, before its narrowing
NarrowInit ==
    /\ CleanerInit /\ ConnInit /\ UpsertIdle /\ RunIdle
    /\ series \in SeriesOver(NarrowCells)
    /\ result = << >>

SpecCleaner == Init /\ [][CleanerNext]_vars

SpecPersist == Init /\ [][PersistNext]_vars

SpecTypes == Init /\ [][TypesNext]_vars

SpecPipeline == Init /\ [][PipelineNext]_vars

SpecNarrow == NarrowInit /\ [][NarrowSeries]_vars

\* one text column, before its imputation
ModeInit ==
    /\ CleanerInit /\ ConnInit /\ UpsertIdle /\ RunIdle
    /\ series \in ModeSeries
    /\ result = << >>

SpecMode == ModeInit /\ [][FillModeSeries]_vars

SpecConnector == Init /\ [][ConnNext]_vars

SpecUpsert == UpsertInit /\ [][UpsertNext]_vars

====
